---- MODULE Spec2Model ----
(***************************************************************************)
(* A model of SHARC's clutter path-loss model (PropagationTvro) and of its *)
(* beamforming antenna array (AntennaBeamformingImt).                      *)
(*                                                                         *)
(* Reals are fixed-point integers with three decimals: 1000 stands for     *)
(* 1.0, so a loss of 19.736 dB is 19736.  Distances are whole metres,      *)
(* which is also d/1000 in thousandths of a kilometre; frequencies are     *)
(* whole MHz, which is also f/1000 in thousandths of a GHz; heights are    *)
(* millimetres; phases are thousandths of a turn.                          *)
(***************************************************************************)
EXTENDS Integers, Sequences, FiniteSets, TLC

VARIABLES
    rand_gen,     \* state of the shared np.random.RandomState: its stream position
    prop,         \* the PropagationTvro instance in use (NoProp before construction)
    call,         \* the operation that just returned to the caller (IdleCall: none)
    trace,        \* the get_loss calls of the current run, oldest first
    golden,       \* the get_loss calls of the previous run from the same seed
    geometry,     \* the antenna array's n_rows, n_cols, dh, dv
    beams_list,   \* AntennaBeamformingImt.__beams_list
    w_vec_list,   \* AntennaBeamformingImt.__w_vec_list
    query         \* the antenna operation that ran last and what it returned

vars == <<rand_gen, prop, call, trace, golden, geometry, beams_list, w_vec_list, query>>
propVars == <<rand_gen, prop, call, trace, golden>>
arrayVars == <<geometry, beams_list, w_vec_list, query>>

(***************************************************************************)
(* Arithmetic                                                              *)
(***************************************************************************)
Abs(x) == IF x < 0 THEN -x ELSE x

Max(a, b) == IF a >= b THEN a ELSE b

\* the product of two fixed-point numbers
Mul(a, b) == (a * b) \div 1000

\* 10000*log10(k/10) for k = 10..100: 10*log10 of the mantissas 1.0, 1.1, ..., 10.0
Log10Tab ==
    <<0, 414, 792, 1139, 1461, 1761, 2041, 2304, 2553, 2788, 3010, 3222, 3424,
      3617, 3802, 3979, 4150, 4314, 4472, 4624, 4771, 4914, 5051, 5185, 5315,
      5441, 5563, 5682, 5798, 5911, 6021, 6128, 6232, 6335, 6435, 6532, 6628,
      6721, 6812, 6902, 6990, 7076, 7160, 7243, 7324, 7404, 7482, 7559, 7634,
      7709, 7782, 7853, 7924, 7993, 8062, 8129, 8195, 8261, 8325, 8388, 8451,
      8513, 8573, 8633, 8692, 8751, 8808, 8865, 8921, 8976, 9031, 9085, 9138,
      9191, 9243, 9294, 9345, 9395, 9445, 9494, 9542, 9590, 9638, 9685, 9731,
      9777, 9823, 9868, 9912, 9956, 10000>>

\* log10(0) is minus infinity in numpy; the model keeps it as this value
NegInf == -1000000

\* 10*log10(m/1000) for a mantissa 1000 <= m < 10000, interpolated in the table
DbMantissa(m) ==
    LET k == m \div 100
        r == m % 100
    IN  Log10Tab[k - 9] + ((Log10Tab[k - 8] - Log10Tab[k - 9]) * r) \div 100

RECURSIVE Db10(_)
\* 10*np.log10(x) of a fixed-point x, in fixed-point dB
Db10(x) ==
    IF x <= 0 THEN NegInf
    ELSE IF x < 1000 THEN Db10(x * 10) - 10000
    ELSE IF x >= 10000 THEN Db10(x \div 10) + 10000
    ELSE DbMantissa(x)

\* 1000*tanh(k/10) for k = 0..50
TanhTab ==
    <<0, 100, 197, 291, 380, 462, 537, 604, 664, 716, 762, 800, 834, 862, 885,
      905, 922, 935, 947, 956, 964, 970, 976, 980, 984, 987, 989, 991, 993,
      994, 995, 996, 997, 997, 998, 998, 999, 999, 999, 999, 999, 999, 1000,
      1000, 1000, 1000, 1000, 1000, 1000, 1000, 1000>>

\* np.tanh of a fixed-point x: odd, interpolated in the table, 1 beyond 5.0
Tanh(x) ==
    LET a == Abs(x)
        k == a \div 100
        r == a % 100
        t == IF a >= 5000 THEN 1000
             ELSE TanhTab[k + 1] + ((TanhTab[k + 2] - TanhTab[k + 1]) * r) \div 100
    IN  IF x < 0 THEN -t ELSE t

\* np.exp(-x) for a small fixed-point x >= 0, by its series
ExpNeg(x) == 1000 - x + (x * x) \div 2000 - (x * x * x) \div 6000000

(***************************************************************************)
(* Arrays: a matrix is a sequence of rows of equal length                  *)
(***************************************************************************)
NRows(M) == Len(M)

NCols(M) == IF Len(M) = 0 THEN 0 ELSE Len(M[1])

\* np.repeat(M, k, 1): every column k times in a row
Repeat(M, k) ==
    [i \in 1..NRows(M) |-> [j \in 1..(NCols(M) * k) |-> M[i][((j - 1) \div k) + 1]]]

(***************************************************************************)
(* PropagationTvro                                                         *)
(***************************************************************************)
LowerCase ==
    <<"a", "b", "c", "d", "e", "f", "g", "h", "i", "j", "k", "l", "m",
      "n", "o", "p", "q", "r", "s", "t", "u", "v", "w", "x", "y", "z">>

UpperCase ==
    <<"A", "B", "C", "D", "E", "F", "G", "H", "I", "J", "K", "L", "M",
      "N", "O", "P", "Q", "R", "S", "T", "U", "V", "W", "X", "Y", "Z">>

\* str.upper(): a string is the sequence of its characters
Upper(s) ==
    [i \in 1..Len(s) |->
        IF \E k \in 1..Len(LowerCase) : LowerCase[k] = s[i]
        THEN UpperCase[CHOOSE k \in 1..Len(LowerCase) : LowerCase[k] = s[i]]
        ELSE s[i]]

URBAN == <<"U", "R", "B", "A", "N">>

SUBURBAN == <<"S", "U", "B", "U", "R", "B", "A", "N">>

\* the environment names callers pass
Environments ==
    { URBAN, SUBURBAN,
      <<"u", "r", "b", "a", "n">>,
      <<"S", "u", "b", "U", "r", "b", "a", "n">>,
      <<"R", "U", "R", "A", "L">> }

\* the free-space collaborator is external: a textbook one (20 log d + 20 log f
\* - 27.55) and one that is non-decreasing in distance but flat inside a decade
FreeSpaceKinds == {"friis", "plateau"}

Friis(d, f) == 2 * Db10(d * 1000) + 2 * Db10(f * 1000) - 27550

RECURSIVE Decade(_)
\* the largest power of ten that is at most d (d >= 1)
Decade(d) == IF d < 10 THEN 1 ELSE 10 * Decade(d \div 10)

\* PropagationFreeSpace.get_loss for one link
FreeSpaceLoss(kind, d, f) ==
    IF kind = "friis" THEN Friis(d, f) ELSE Friis(Decade(d), f)

EnvAttrs == {"d_k", "shadowing_std", "h_a"}

NoProp ==
    [attrs |-> {}, d_k |-> 0, shadowing_std |-> 0, h_a |-> 0, building_loss |-> 0,
     free_space_path_loss |-> "none"]

\* PropagationTvro.__init__: the instance it leaves behind.  attrs are the
\* attributes the constructor assigned; an unassigned one holds 0 here and
\* is never read.
PropagationTvroInit(environment, free_space) ==
    IF Upper(environment) = URBAN
    THEN [attrs |-> EnvAttrs \cup {"building_loss", "free_space_path_loss"},
          d_k |-> 20, shadowing_std |-> 6, h_a |-> 20, building_loss |-> 20,
          free_space_path_loss |-> free_space]
    ELSE IF Upper(environment) = SUBURBAN
    THEN [attrs |-> EnvAttrs \cup {"building_loss", "free_space_path_loss"},
          d_k |-> 25, shadowing_std |-> 8, h_a |-> 9, building_loss |-> 20,
          free_space_path_loss |-> free_space]
    ELSE [attrs |-> {"building_loss", "free_space_path_loss"},
          d_k |-> 0, shadowing_std |-> 0, h_a |-> 0, building_loss |-> 20,
          free_space_path_loss |-> free_space]

\* what the constructor raises: it has no branch for an unknown name
InitError(environment) == "none"

\* standard normal samples of the generator's stream, which repeats
NormalStream == <<-1500, 400, 2200, -300, 900>>

\* RandomState.normal(0, std, n) from stream position gen
Normal(gen, std, n) ==
    [samples |-> [k \in 1..n |-> std * NormalStream[((gen + k - 1) % Len(NormalStream)) + 1]],
     gen |-> (gen + n) % Len(NormalStream)]

Has(kwargs, key) == key \in kwargs.keys

\* the shadowing flag not looked at
ShadowingIgnored(kwargs) == TRUE

\* kwargs.pop("shadowing", True)

Shadowing(kwargs) == IF Has(kwargs, "shadowing") THEN kwargs.shadowing ELSE TRUE

\* kwargs.pop("number_of_sectors", 1)
NumberOfSectors(kwargs) ==
    IF Has(kwargs, "number_of_sectors") THEN kwargs.number_of_sectors ELSE 1

\* the station-type tag not looked at
HeightKeyAlwaysUe(kwargs) == "ue_height"

\* the key the height is read from: es_z with the imt_sta_type tag
HeightKey(kwargs) == IF Has(kwargs, "imt_sta_type") THEN "es_z" ELSE "ue_height"

\* the keys get_loss subscripts, in the order it reads them
ReadKeys(kwargs) == <<"distance_3D", "frequency", "indoor_stations", HeightKey(kwargs)>>

\* f_fc and clutter_loss of one link
ClutterLoss(self, f_MHz, height) ==
    LET f_fc == 250 + Mul(375, 1000 + Tanh((15 * (f_MHz - 500)) \div 2))
    IN  Mul(Mul(Mul(10250, f_fc), ExpNeg(self.d_k)),
            1000 - Tanh(6 * (height \div self.h_a - 625))) - 330

\* indices = (d_3D >= 40) & (d_3D < 10 * self.d_k * 1000)
InBlendRange(self, d) == d >= 40 /\ d < 10 * self.d_k

\* > in the place of >= at ten clutter distances
InFullRangeStrict(self, d) == d > 10 * self.d_k

\* indices = (d_3D >= 10 * self.d_k * 1000)
InFullRange(self, d) == d >= 10 * self.d_k

\* the fraction taken from the far end: (10*d_k - d/1000)/(10*d_k - 0.04)
BlendInverted(self, d, clutter_loss) ==
    ((10 * self.d_k - d) * clutter_loss) \div (10 * self.d_k - 40)

\* (d_3D/1000 - 0.04)/(10*self.d_k - 0.04) * clutter_loss
Blend(self, d, clutter_loss) == ((d - 40) * clutter_loss) \div (10 * self.d_k - 40)

\* the clamp left out
ClampNone(loss, free_space_path_loss) == loss

\* np.maximum(loss, free_space_path_loss) of one cell
Clamp(loss, free_space_path_loss) == Max(loss, free_space_path_loss)

\* np.tile in the place of np.repeat: the whole row k times
Tile(M, k) ==
    [i \in 1..NRows(M) |-> [j \in 1..(NCols(M) * k) |-> M[i][((j - 1) % NCols(M)) + 1]]]

\* np.repeat(loss, number_of_sectors, 1)
Replicate(loss, number_of_sectors) == Repeat(loss, number_of_sectors)

\* the shape of the loss had it been replicated before the draw
ShapeAfterReplication(loss, number_of_sectors) ==
    NRows(loss) * NCols(loss) * Max(number_of_sectors, 1)

\* the number of samples in loss.shape when the shadowing is drawn
DrawShape(loss, number_of_sectors) == NRows(loss) * NCols(loss)

\* lines 74 to 90 for one link: copy, blend, full clutter, building loss,
\* shadowing sample (0 when shadowing is off), clamp
LossCell(self, d, free_space_path_loss, clutter_loss, indoor, sample) ==
    LET blended ==
            IF InBlendRange(self, d)
            THEN free_space_path_loss + Blend(self, d, clutter_loss)
            ELSE free_space_path_loss
        cluttered ==
            IF InFullRange(self, d) THEN blended + clutter_loss ELSE blended
        shadowed == cluttered + self.building_loss * 1000 * indoor + sample
    IN  Clamp(shadowed, free_space_path_loss)

\* what a get_loss that raised hands back
Raised(self, kwargs, gen, error) ==
    [op |-> "get_loss", environment |-> <<>>, self |-> self, kwargs |-> kwargs,
     error |-> error, loss |-> <<>>, free_space |-> <<>>, clutter |-> <<>>,
     gen_before |-> gen, gen |-> gen, drawn |-> 0, self_after |-> self,
     caller |-> [distance_3D |-> kwargs.distance_3D, frequency |-> kwargs.frequency,
                 indoor_stations |-> kwargs.indoor_stations]]

\* PropagationTvro.get_loss on instance self with the generator at gen
GetLoss(self, kwargs, gen) ==
    IF \E n \in 1..Len(ReadKeys(kwargs)) : ~Has(kwargs, ReadKeys(kwargs)[n])
    THEN Raised(self, kwargs, gen, "KeyError")
    ELSE IF ~(EnvAttrs \subseteq self.attrs)
    THEN Raised(self, kwargs, gen, "AttributeError")
    ELSE
    LET d_3D == kwargs.distance_3D
        f_MHz == kwargs.frequency
        shadowing == Shadowing(kwargs)
        number_of_sectors == NumberOfSectors(kwargs)
        indoor_stations == kwargs.indoor_stations
        height == IF HeightKey(kwargs) = "es_z" THEN kwargs.es_z ELSE kwargs.ue_height
        free_space_path_loss ==
            [i \in 1..NRows(d_3D) |-> [j \in 1..NCols(d_3D) |->
                FreeSpaceLoss(self.free_space_path_loss, d_3D[i][j], f_MHz[i][j])]]
        clutter_loss ==
            [i \in 1..NRows(d_3D) |-> [j \in 1..NCols(d_3D) |->
                ClutterLoss(self, f_MHz[i][j], height)]]
        n == IF shadowing THEN DrawShape(d_3D, number_of_sectors) ELSE 0
        draw == Normal(gen, self.shadowing_std, n)
        loss ==
            [i \in 1..NRows(d_3D) |-> [j \in 1..NCols(d_3D) |->
                LossCell(self, d_3D[i][j], free_space_path_loss[i][j],
                         clutter_loss[i][j], indoor_stations[i][j],
                         IF shadowing THEN draw.samples[(i - 1) * NCols(d_3D) + j] ELSE 0)]]
    IN  [op |-> "get_loss", environment |-> <<>>, self |-> self, kwargs |-> kwargs,
         error |-> "none",
         loss |-> IF number_of_sectors > 1
                  THEN Replicate(loss, number_of_sectors) ELSE loss,
         free_space |-> free_space_path_loss, clutter |-> clutter_loss,
         gen_before |-> gen, gen |-> draw.gen, drawn |-> n, self_after |-> self,
         caller |-> [distance_3D |-> d_3D, frequency |-> f_MHz,
                     indoor_stations |-> indoor_stations]]

(***************************************************************************)
(* The callers' inputs                                                     *)
(***************************************************************************)
\* the largest number_of_sectors a caller passes
MaxSectors == 2

\* link distances in metres, on both sides of 40 m, 200 m and 250 m
Distances == {39, 40, 120, 200, 250, 10000}

\* the concrete scenario's links
ScenarioBatch == << <<39, 40, 200, 10000>> >>

\* distance_3D arrays: a row of two links, the scenario, a column of two links
Batches ==
    { << <<ab[1], ab[2]>> >> : ab \in {x \in Distances \X Distances : x[1] <= x[2]} }
        \cup {ScenarioBatch} \cup { << <<40>>, <<250>> >> }

\* frequency = f*np.ones(distance_3D.shape)
Full(M, f) == [i \in 1..NRows(M) |-> [j \in 1..NCols(M) |-> f]]

\* indoor_stations arrays: all outdoor, all indoor, and the two alternating ones
Indoor(M, p) ==
    [i \in 1..NRows(M) |-> [j \in 1..NCols(M) |->
        IF p = 0 THEN 0 ELSE IF p = 1 THEN 1 ELSE IF p = 2 THEN (i + j) % 2
        ELSE (i + j + 1) % 2]]

\* the height a caller passes: ue_height, or es_z with the station-type tag
Heights ==
    { [tag |-> FALSE, h |-> 1500], [tag |-> TRUE, h |-> 6000], [tag |-> TRUE, h |-> 25000] }

Kwargs(d_3D, f, p, ht, sh, sec) ==
    [keys |-> {"distance_3D", "frequency", "indoor_stations"}
                \cup (IF ht.tag THEN {"imt_sta_type", "es_z"} ELSE {"ue_height"})
                \cup (IF sh = "absent" THEN {} ELSE {"shadowing"})
                \cup (IF sec < 0 THEN {} ELSE {"number_of_sectors"}),
     distance_3D |-> d_3D,
     frequency |-> Full(d_3D, f),
     indoor_stations |-> Indoor(d_3D, p),
     shadowing |-> (sh # "off"),
     number_of_sectors |-> IF sec < 0 THEN 1 ELSE sec,
     es_z |-> IF ht.tag THEN ht.h ELSE 0,
     ue_height |-> IF ht.tag THEN 0 ELSE ht.h]

\* the keyword arguments of a complete call
FullKwargs ==
    { Kwargs(d, f, p, ht, sh, sec) :
        d \in Batches, f \in {600, 3600}, p \in 0..3, ht \in Heights,
        sh \in {"on", "off"}, sec \in 1..MaxSectors }

\* kwargs without key k
Without(kwargs, k) ==
    [kwargs EXCEPT !.keys = @ \ {k},
                   !.distance_3D = IF k = "distance_3D" THEN <<>> ELSE @,
                   !.frequency = IF k = "frequency" THEN <<>> ELSE @,
                   !.indoor_stations = IF k = "indoor_stations" THEN <<>> ELSE @,
                   !.es_z = IF k = "es_z" THEN 0 ELSE @,
                   !.ue_height = IF k = "ue_height" THEN 0 ELSE @]

\* complete calls that leave shadowing or number_of_sectors out (sec = -1) or
\* pass number_of_sectors = 0
DefaultKwargs ==
    { Kwargs(d, 3600, p, [tag |-> FALSE, h |-> 1500], sh, sec) :
        d \in {ScenarioBatch, << <<40>>, <<250>> >>}, p \in {0, 2},
        sh \in {"absent", "off"}, sec \in {-1, 0} }

\* calls that leave a required key out, with shadowing on
PartialKwargs ==
    LET ue == Kwargs(ScenarioBatch, 3600, 0, [tag |-> FALSE, h |-> 1500], "absent", -1)
        es == Kwargs(ScenarioBatch, 3600, 0, [tag |-> TRUE, h |-> 6000], "on", -1)
    IN  { Without(ue, k) : k \in {"distance_3D", "frequency", "indoor_stations", "ue_height"} }
        \cup { Without(es, "es_z"),
               [Without(es, "es_z") EXCEPT !.keys = @ \cup {"ue_height"}, !.ue_height = 1500],
               [ue EXCEPT !.keys = @ \cup {"es_z"}, !.es_z = 6000] }

NoKwargs ==
    [keys |-> {}, distance_3D |-> <<>>, frequency |-> <<>>, indoor_stations |-> <<>>,
     shadowing |-> TRUE, number_of_sectors |-> 1, es_z |-> 0, ue_height |-> 0]

NoCaller == [distance_3D |-> <<>>, frequency |-> <<>>, indoor_stations |-> <<>>]

IdleCall ==
    [op |-> "idle", environment |-> <<>>, self |-> NoProp, kwargs |-> NoKwargs,
     error |-> "none", loss |-> <<>>, free_space |-> <<>>, clutter |-> <<>>,
     gen_before |-> 0, gen |-> 0, drawn |-> 0, self_after |-> NoProp,
     caller |-> NoCaller]

(***************************************************************************)
(* Operations of the propagation model                                     *)
(***************************************************************************)
\* prop = PropagationTvro(rand_gen, environment)
DoConstruct(environment, free_space) ==
    /\ prop' = PropagationTvroInit(environment, free_space)
    /\ call' = [IdleCall EXCEPT !.op = "__init__", !.environment = environment,
                                !.error = InitError(environment),
                                !.gen_before = rand_gen, !.gen = rand_gen,
                                !.self_after = PropagationTvroInit(environment, free_space)]
    /\ rand_gen' = rand_gen

\* loss = prop.get_loss(**kwargs)
DoGetLoss(kwargs) ==
    /\ prop # NoProp
    /\ LET r == GetLoss(prop, kwargs, rand_gen)
       IN  /\ call' = r
           /\ rand_gen' = r.gen
           /\ prop' = r.self_after

Construct(environment, free_space) ==
    /\ call = IdleCall
    /\ DoConstruct(environment, free_space)
    /\ UNCHANGED <<trace, golden, arrayVars>>

Call(kwargs) ==
    /\ call = IdleCall
    /\ DoGetLoss(kwargs)
    /\ UNCHANGED <<trace, golden, arrayVars>>

\* the caller is done with what the last operation returned
Discard ==
    /\ call # IdleCall
    /\ call' = IdleCall
    /\ UNCHANGED <<rand_gen, prop, trace, golden, arrayVars>>

NoQuery == [op |-> "none", args |-> <<>>, value |-> <<>>, gain |-> 0]

DefaultGeometry == [n_rows |-> 2, n_cols |-> 2, dh |-> 500, dv |-> 500]

Init ==
    /\ rand_gen = 0
    /\ prop = NoProp
    /\ call = IdleCall
    /\ trace = <<>>
    /\ golden = <<>>
    /\ geometry = DefaultGeometry
    /\ beams_list = <<>>
    /\ w_vec_list = <<>>
    /\ query = NoQuery

Next ==
    \/ \E environment \in Environments, free_space \in FreeSpaceKinds :
          Construct(environment, free_space)
    \/ \E kwargs \in FullKwargs \cup DefaultKwargs \cup PartialKwargs : Call(kwargs)
    \/ Discard

Spec == Init /\ [][Next]_vars

(***************************************************************************)
(* Properties of get_loss and of the constructor                           *)
(***************************************************************************)
\* a get_loss call has returned a loss
Returned == call.op = "get_loss" /\ call.error = "none"

\* the number of copies np.repeat made of each column
Copies(kwargs) == IF NumberOfSectors(kwargs) > 1 THEN NumberOfSectors(kwargs) ELSE 1

\* the column of distance_3D that column j of the returned loss belongs to
LinkOf(kwargs, j) == ((j - 1) \div Copies(kwargs)) + 1

\* the free-space loss of the link behind cell (i, j) of the returned loss
FreeSpaceOf(c, i, j) ==
    FreeSpaceLoss(c.self.free_space_path_loss,
                  c.kwargs.distance_3D[i][LinkOf(c.kwargs, j)],
                  c.kwargs.frequency[i][LinkOf(c.kwargs, j)])

\* C1: every cell of a returned loss is at least the free-space loss of the
\* same link, with shadowing on or off, indoor or not, whatever the sign of
\* the clutter loss and of the shadowing sample.
C1_LossAtLeastFreeSpace ==
    Returned =>
        \A i \in 1..NRows(call.loss) : \A j \in 1..NCols(call.loss) :
            call.loss[i][j] >= FreeSpaceOf(call, i, j)

\* C1's case: shadowing is on, an outdoor link beyond the clutter distance
\* with a positive clutter loss drew a sample negative enough to be clamped,
\* and another link of the same call stayed above its floor.
C1_Witness ==
    /\ Returned
    /\ Shadowing(call.kwargs)
    /\ \E i \in 1..NRows(call.loss) : \E j \in 1..NCols(call.loss) :
          /\ call.kwargs.distance_3D[i][LinkOf(call.kwargs, j)] >= 10 * call.self.d_k
          /\ call.clutter[i][LinkOf(call.kwargs, j)] > 0
          /\ call.kwargs.indoor_stations[i][LinkOf(call.kwargs, j)] = 0
          /\ call.loss[i][j] = FreeSpaceOf(call, i, j)
    /\ \E i \in 1..NRows(call.loss) : \E j \in 1..NCols(call.loss) :
          call.loss[i][j] > FreeSpaceOf(call, i, j)

\* C2: a construction with a name that is neither URBAN nor SUBURBAN in any
\* letter case fails with ConfigurationError, so no instance lacks d_k,
\* shadowing_std or h_a; a name that matches constructs without error.
C2_UnknownEnvironmentFails ==
    /\ (call.op = "__init__" /\ Upper(call.environment) \notin {URBAN, SUBURBAN})
          => call.error = "ConfigurationError"
    /\ (call.op = "__init__" /\ Upper(call.environment) \in {URBAN, SUBURBAN})
          => call.error = "none"
    /\ prop # NoProp => EnvAttrs \subseteq prop.attrs

\* the concrete scenario: URBAN, shadowing off, all outdoor, 3600 MHz,
\* ue_height 1.5 m, distances 39, 40, 200, 10000 m
IsScenario ==
    /\ Returned
    /\ call.self.attrs # {} /\ call.self.d_k = 20 /\ call.self.h_a = 20
    /\ call.kwargs.distance_3D = ScenarioBatch
    /\ call.kwargs.frequency = Full(ScenarioBatch, 3600)
    /\ call.kwargs.indoor_stations = Indoor(ScenarioBatch, 0)
    /\ ~Shadowing(call.kwargs)
    /\ ~Has(call.kwargs, "imt_sta_type") /\ call.kwargs.ue_height = 1500
    /\ NumberOfSectors(call.kwargs) <= 1

\* C3 as stated: the 39 m link gets exactly the free-space loss, the 40 m,
\* 200 m and 10000 m links strictly more, and the 10000 m link the free-space
\* loss plus the full clutter term.
C3_ScenarioAsStated ==
    IsScenario =>
        /\ call.loss[1][1] = FreeSpaceOf(call, 1, 1)
        /\ \A j \in 2..4 : call.loss[1][j] > FreeSpaceOf(call, 1, j)
        /\ call.loss[1][4] = FreeSpaceOf(call, 1, 4) + ClutterLoss(call.self, 3600, 1500)

\* C3 amended: the 39 m and the 40 m links get exactly the free-space loss
\* (the interpolated fraction is zero at 40 m), the 200 m and 10000 m links
\* strictly more, and the 10000 m link the free-space loss plus the full
\* clutter term.
C3_Scenario ==
    IsScenario =>
        /\ \A j \in 1..2 : call.loss[1][j] = FreeSpaceOf(call, 1, j)
        /\ \A j \in 3..4 : call.loss[1][j] > FreeSpaceOf(call, 1, j)
        /\ call.loss[1][4] = FreeSpaceOf(call, 1, 4) + ClutterLoss(call.self, 3600, 1500)

C3_Witness == IsScenario /\ ClutterLoss(call.self, 3600, 1500) > 0

\* cells (i, j) and (k, l) of the returned loss are links with the same indoor
\* flag, the first no farther than the second
Comparable(c, i, j, k, l) ==
    /\ c.kwargs.distance_3D[i][LinkOf(c.kwargs, j)] <= c.kwargs.distance_3D[k][LinkOf(c.kwargs, l)]
    /\ c.kwargs.indoor_stations[i][LinkOf(c.kwargs, j)] = c.kwargs.indoor_stations[k][LinkOf(c.kwargs, l)]

\* C4 as stated: at a fixed frequency, height, indoor flag and environment the
\* returned loss is non-decreasing in distance_3D.
C4_MonotoneAsStated ==
    Returned =>
        \A i, k \in 1..NRows(call.loss) : \A j, l \in 1..NCols(call.loss) :
            Comparable(call, i, j, k, l) => call.loss[i][j] <= call.loss[k][l]

\* C4 amended: with shadowing off, and with a clutter loss that is not
\* negative or with outdoor links, the returned loss is non-decreasing in
\* distance_3D at a fixed frequency, height, indoor flag and environment.
C4_Monotone ==
    (Returned /\ ~Shadowing(call.kwargs)) =>
        \A i, k \in 1..NRows(call.loss) : \A j, l \in 1..NCols(call.loss) :
            ( /\ Comparable(call, i, j, k, l)
              /\ \/ call.clutter[i][LinkOf(call.kwargs, j)] >= 0
                 \/ call.kwargs.indoor_stations[i][LinkOf(call.kwargs, j)] = 0 )
                => call.loss[i][j] <= call.loss[k][l]

\* C4's case: shadowing off, two links on both sides of a threshold (40 m or
\* ten clutter distances) with a positive clutter loss, the farther one with
\* the strictly larger loss.
C4_Witness ==
    /\ Returned /\ ~Shadowing(call.kwargs)
    /\ NCols(call.kwargs.distance_3D) = 2
    /\ call.clutter[1][1] > 0
    /\ call.kwargs.indoor_stations[1][1] = call.kwargs.indoor_stations[1][2]
    /\ call.kwargs.distance_3D[1][1] < 10 * call.self.d_k
    /\ call.kwargs.distance_3D[1][1] >= 40
    /\ call.kwargs.distance_3D[1][2] >= 10 * call.self.d_k
    /\ call.loss[1][1] < call.loss[1][NCols(call.loss)]

\* the loss the same call returns without number_of_sectors
Unreplicated(c) ==
    GetLoss(c.self, [c.kwargs EXCEPT !.keys = @ \ {"number_of_sectors"},
                                     !.number_of_sectors = 1], c.gen_before).loss

\* C5 as stated: with number_of_sectors = k > 1 the sector axis has length
\* exactly k and every slice along it is the unreplicated loss; with k = 1 or
\* no k the loss is unreplicated.
C5_SectorsAsStated ==
    Returned =>
        LET k == NumberOfSectors(call.kwargs)
            u == Unreplicated(call)
        IN  IF k > 1
            THEN /\ NCols(call.loss) = k
                 /\ \A i \in 1..NRows(call.loss) : \A j \in 1..NCols(call.loss) :
                        call.loss[i] = [x \in 1..k |-> u[i][1]]
            ELSE call.loss = u

\* C5 amended: with number_of_sectors = k > 1 the sector axis is k times as
\* long as that of the unreplicated loss (exactly k for a single column),
\* each column of the unreplicated loss standing k times in a row, and the
\* shadowing is drawn once per unreplicated cell; with k <= 1 or no k the
\* loss is unreplicated.
C5_Sectors ==
    Returned =>
        LET k == NumberOfSectors(call.kwargs)
            u == Unreplicated(call)
        IN  IF k > 1
            THEN /\ NRows(call.loss) = NRows(u)
                 /\ NCols(call.loss) = k * NCols(u)
                 /\ \A i \in 1..NRows(u) : \A j \in 1..NCols(u) : \A x \in 1..k :
                        call.loss[i][(j - 1) * k + x] = u[i][j]
                 /\ Shadowing(call.kwargs) => call.drawn = NRows(u) * NCols(u)
            ELSE call.loss = u

\* C5's case: shadowing on, two links with different losses, replicated
C5_Witness ==
    /\ Returned /\ Shadowing(call.kwargs)
    /\ NumberOfSectors(call.kwargs) > 1
    /\ NCols(call.kwargs.distance_3D) = 2
    /\ call.loss[1][1] # call.loss[1][NCols(call.loss)]
    /\ call.gen # call.gen_before

\* the keys a call must pass
RequiredKeys(kwargs) ==
    {"distance_3D", "frequency", "indoor_stations"}
        \cup (IF "imt_sta_type" \in kwargs.keys THEN {"es_z"} ELSE {"ue_height"})

MaxBeams == 2

\* array geometries: n_rows, n_cols, and dh, dv in thousandths of a wavelength
Geometries ==
    { [n_rows |-> 1, n_cols |-> 2, dh |-> 500, dv |-> 500],
      [n_rows |-> 2, n_cols |-> 2, dh |-> 500, dv |-> 500],
      [n_rows |-> 3, n_cols |-> 2, dh |-> 500, dv |-> 500],
      [n_rows |-> 2, n_cols |-> 1, dh |-> 500, dv |-> 1000],
      [n_rows |-> 2, n_cols |-> 3, dh |-> 1000, dv |-> 250] }

\* directions <<phi, theta>> and electrical tilts <<phi_tilt, theta_tilt>>, degrees
Directions == { <<0, 0>>, <<0, 90>>, <<30, 90>> }

Tilts == { <<0, 0>>, <<30, 0>>, <<0, 30>> }

\* the element pattern is external: the gains in dBi it may return
ElementGains == {5000, -3000}

\* sin of y degrees, 0 <= y <= 180 (Bhaskara's rational form, exact at 0, 30, 90)
SinHalfTurnDeg(y) == (4000 * y * (180 - y)) \div (40500 - y * (180 - y))

\* np.sin(np.deg2rad(x))
SinDeg(x) ==
    LET y == x % 360
    IN  IF y <= 180 THEN SinHalfTurnDeg(y) ELSE -SinHalfTurnDeg(y - 180)

\* np.cos(np.deg2rad(x))
CosDeg(x) == SinDeg(x + 90)

\* sin of y thousandths of a turn, 0 <= y <= 500 (the same rational form)
SinHalfTurn(y) == (4000 * y * (500 - y)) \div (312500 - y * (500 - y))

SinTurn(t) ==
    LET y == t % 1000
    IN  IF y <= 500 THEN SinHalfTurn(y) ELSE -SinHalfTurn(y - 500)

\* np.exp(2*np.pi*1.0j*t) for t in thousandths of a turn
CExp(t) == [re |-> SinTurn(t + 250), im |-> SinTurn(t)]

CMul(a, b) ==
    [re |-> Mul(a.re, b.re) - Mul(a.im, b.im), im |-> Mul(a.re, b.im) + Mul(a.im, b.re)]

RECURSIVE Bisect(_, _, _)
\* the r with lo <= r < hi and r*r <= x < (r + 1)*(r + 1)
Bisect(x, lo, hi) ==
    IF hi - lo <= 1 THEN lo
    ELSE LET mid == (lo + hi) \div 2
         IN  IF mid * mid <= x THEN Bisect(x, mid, hi) ELSE Bisect(x, lo, mid)

\* np.sqrt(n) of a whole number n
Sqrt(n) == Bisect(n * 1000000, 0, 46000)

\* 1/(n_rows*n_cols) in the place of 1/np.sqrt(n_rows*n_cols)
AmplitudeOverN(self) == 1000 \div (self.n_rows * self.n_cols)

\* 1/np.sqrt(self.n_rows*self.n_cols)
Amplitude(self) == 1000000 \div Sqrt(self.n_rows * self.n_cols)

\* super_position_vector(phi, theta)
super_position_vector(self, phi, theta) ==
    [n \in 1..self.n_rows |-> [m \in 1..self.n_cols |->
        CExp((n - 1) * Mul(self.dv, CosDeg(theta))
             + (m - 1) * Mul(Mul(self.dh, SinDeg(theta)), SinDeg(phi)))]]

\* weight_vector(phi_tilt, theta_tilt)
weight_vector(self, phi_tilt, theta_tilt) ==
    [n \in 1..self.n_rows |-> [m \in 1..self.n_cols |->
        LET e == CExp((n - 1) * Mul(self.dv, SinDeg(theta_tilt))
                      - (m - 1) * Mul(Mul(self.dh, CosDeg(theta_tilt)), SinDeg(phi_tilt)))
        IN  [re |-> Mul(Amplitude(self), e.re), im |-> Mul(Amplitude(self), e.im)]]]

RECURSIVE SumRow(_, _)
\* the sum of the first k entries of a row of complex numbers
SumRow(row, k) ==
    IF k = 0 THEN [re |-> 0, im |-> 0]
    ELSE LET rest == SumRow(row, k - 1)
         IN  [re |-> rest.re + row[k].re, im |-> rest.im + row[k].im]

RECURSIVE SumRows(_, _)
\* np.sum over the first k rows of a matrix of complex numbers
SumRows(M, k) ==
    IF k = 0 THEN [re |-> 0, im |-> 0]
    ELSE LET rest == SumRows(M, k - 1)
             row == SumRow(M[k], Len(M[k]))
         IN  [re |-> rest.re + row.re, im |-> rest.im + row.im]

\* array_gain(v_vec, w_vec)
array_gain(v_vec, w_vec) ==
    LET prod == [n \in 1..Len(v_vec) |-> [m \in 1..Len(v_vec[n]) |->
                    CMul(v_vec[n][m], w_vec[n][m])]]
        total == SumRows(prod, Len(prod))
    IN  Db10(Mul(total.re, total.re) + Mul(total.im, total.im))

\* beam_gain(phi, theta, phi_scan, theta_tilt) with the element's gain element_g
beam_gain(self, element_g, phi, theta, phi_scan, theta_tilt) ==
    LET array_g == array_gain(super_position_vector(self, phi, theta),
                              weight_vector(self, phi_scan, theta_tilt))
    IN  IF array_g = NegInf THEN NegInf ELSE element_g + array_g

\* list.insert(0, item) in the place of list.append(item)
ListInsertFront(list, item) == <<item>> \o list

\* list.append(item)
ListAppend(list, item) == Append(list, item)

AddBeam(phi_etilt, theta_etilt) ==
    /\ Len(beams_list) < MaxBeams
    /\ beams_list' = ListAppend(beams_list, <<phi_etilt, theta_etilt>>)
    /\ w_vec_list' = ListAppend(w_vec_list, weight_vector(geometry, phi_etilt, theta_etilt))
    /\ query' = [op |-> "add_beam", args |-> <<phi_etilt, theta_etilt>>,
                 value |-> <<>>, gain |-> 0]
    /\ UNCHANGED <<geometry, propVars>>

SuperPositionVector(phi, theta) ==
    /\ query' = [op |-> "super_position_vector", args |-> <<phi, theta>>,
                 value |-> super_position_vector(geometry, phi, theta), gain |-> 0]
    /\ UNCHANGED <<geometry, beams_list, w_vec_list, propVars>>

WeightVector(phi_tilt, theta_tilt) ==
    /\ query' = [op |-> "weight_vector", args |-> <<phi_tilt, theta_tilt>>,
                 value |-> weight_vector(geometry, phi_tilt, theta_tilt), gain |-> 0]
    /\ UNCHANGED <<geometry, beams_list, w_vec_list, propVars>>

\* array_gain of the vectors the two operations above return
ArrayGain(phi, theta, phi_tilt, theta_tilt) ==
    /\ query' = [op |-> "array_gain", args |-> <<phi, theta, phi_tilt, theta_tilt>>,
                 value |-> <<>>,
                 gain |-> array_gain(super_position_vector(geometry, phi, theta),
                                     weight_vector(geometry, phi_tilt, theta_tilt))]
    /\ UNCHANGED <<geometry, beams_list, w_vec_list, propVars>>

BeamGain(phi, theta, phi_scan, theta_tilt) ==
    /\ \E element_g \in ElementGains :
          query' = [op |-> "beam_gain", args |-> <<phi, theta, phi_scan, theta_tilt>>,
                    value |-> <<>>,
                    gain |-> beam_gain(geometry, element_g, phi, theta, phi_scan, theta_tilt)]
    /\ UNCHANGED <<geometry, beams_list, w_vec_list, propVars>>

InitArray ==
    /\ rand_gen = 0
    /\ prop = NoProp
    /\ call = IdleCall
    /\ trace = <<>>
    /\ golden = <<>>
    /\ geometry \in Geometries
    /\ beams_list = <<>>
    /\ w_vec_list = <<>>
    /\ query = NoQuery

NextArray ==
    \/ \E t \in Tilts : AddBeam(t[1], t[2])
    \/ \E d \in Directions : SuperPositionVector(d[1], d[2])
    \/ \E t \in Tilts : WeightVector(t[1], t[2])
    \/ \E d \in Directions, t \in Tilts : ArrayGain(d[1], d[2], t[1], t[2])
    \/ \E d \in Directions, t \in Tilts : BeamGain(d[1], d[2], t[1], t[2])

SpecArray == InitArray /\ [][NextArray]_vars

\* lst is a prefix of lst2
IsPrefix(lst, lst2) ==
    /\ Len(lst) <= Len(lst2)
    /\ \A i \in 1..Len(lst) : lst[i] = lst2[i]

\* C6: the beam sequence is append-only.  Every add_beam appends one tilt pair
\* and one weight vector at the end, no query changes either list, entries are
\* never removed, reordered or altered, the lists stay equally long, and the
\* weight vector at index i is weight_vector of the tilt pair at index i.
C6_AppendOnly ==
    [][ /\ IsPrefix(beams_list, beams_list')
        /\ IsPrefix(w_vec_list, w_vec_list')
        /\ Len(beams_list') = Len(w_vec_list')
        /\ \A i \in 1..Len(beams_list') :
              w_vec_list'[i] = weight_vector(geometry, beams_list'[i][1], beams_list'[i][2])
        /\ IF query'.op = "add_beam"
           THEN /\ Len(beams_list') = Len(beams_list) + 1
                /\ beams_list'[Len(beams_list')] = query'.args
           ELSE /\ beams_list' = beams_list
                /\ w_vec_list' = w_vec_list
      ]_vars

\* C6's case: two different beams are stored and a gain query has just run
C6_Witness ==
    /\ Len(beams_list) = 2
    /\ beams_list[1] # beams_list[2]
    /\ w_vec_list[1] # w_vec_list[2]
    /\ query.op = "beam_gain"

\* the gain of n_rows*n_cols contributions adding in phase: 10*log10(n_rows*n_cols)
CoherentGain(self) == Db10(self.n_rows * self.n_cols * 1000)

\* equal within the rounding of three decimals
Close(a, b) == Abs(a - b) <= 20

\* C9 as stated: for any geometry, array_gain of super_position_vector(0, 0)
\* and weight_vector(0, 0) is 10*log10(n_rows*n_cols).
C9_BoresightAsStated ==
    (query.op = "array_gain" /\ query.args = <<0, 0, 0, 0>>)
        => Close(query.gain, CoherentGain(geometry))

\* C9 amended: array_gain of super_position_vector(0, 0) and weight_vector(0, 0)
\* is 10*log10(n_rows*n_cols) for a geometry with one row or a whole-number
\* dv; for any geometry it is so for super_position_vector(0, 90), the
\* direction in which the code's phases all vanish.
C9_Boresight ==
    /\ ( /\ query.op = "array_gain" /\ query.args = <<0, 0, 0, 0>>
         /\ (geometry.n_rows = 1 \/ geometry.dv % 1000 = 0) )
          => Close(query.gain, CoherentGain(geometry))
    /\ (query.op = "array_gain" /\ query.args = <<0, 90, 0, 0>>)
          => Close(query.gain, CoherentGain(geometry))

\* C9's case: several rows half a wavelength apart, queried at theta = 90
C9_Witness ==
    /\ query.op = "array_gain" /\ query.args = <<0, 90, 0, 0>>
    /\ geometry.n_rows = 3 /\ geometry.dv = 500
    /\ query.gain > 7000

(***************************************************************************)
(* Runs: sequences of get_loss calls on one shared generator               *)
(***************************************************************************)
\* the most get_loss calls in a run that is repeated from the same seed
MaxCalls == 2

\* the most get_loss calls whose results a caller keeps side by side
MaxHistory == 3

\* the calls of a run: two links replicated with shadowing on, one link with
\* shadowing left out, the two links with shadowing off
RunKwargs ==
    { Kwargs(<< <<120, 250>> >>, 3600, 0, [tag |-> FALSE, h |-> 1500], "on", 2),
      Kwargs(<< <<200>> >>, 3600, 0, [tag |-> TRUE, h |-> 6000], "absent", -1),
      Kwargs(<< <<120, 250>> >>, 3600, 0, [tag |-> FALSE, h |-> 1500], "off", 2) }

\* prop_urban = PropagationTvro(rand_gen, "URBAN") and its SUBURBAN twin
RunConstruct(environment) ==
    /\ DoConstruct(environment, "friis")
    /\ UNCHANGED <<trace, golden, arrayVars>>

\* a get_loss call whose record the caller keeps
LoggedCall(kwargs, limit) ==
    /\ Len(trace) < limit
    /\ DoGetLoss(kwargs)
    /\ trace' = Append(trace, call')
    /\ UNCHANGED <<golden, arrayVars>>

\* the run starts over: rand_gen = np.random.RandomState(101)
NewRun ==
    /\ trace # <<>>
    /\ golden' = trace
    /\ trace' = <<>>
    /\ rand_gen' = 0
    /\ prop' = NoProp
    /\ call' = IdleCall
    /\ UNCHANGED arrayVars

NextRuns ==
    \/ \E environment \in {URBAN, SUBURBAN} : RunConstruct(environment)
    \/ \E kwargs \in RunKwargs : LoggedCall(kwargs, MaxCalls)
    \/ NewRun

SpecRuns == Init /\ [][NextRuns]_vars

NextHistory ==
    \/ \E environment \in {URBAN, SUBURBAN} : RunConstruct(environment)
    \/ \E kwargs \in RunKwargs : LoggedCall(kwargs, MaxHistory)

SpecHistory == Init /\ [][NextHistory]_vars

\* the call passed shadowing = True or left it out
ShadowingOn(kwargs) == "shadowing" \in kwargs.keys => kwargs.shadowing

\* the number of links of a call
Links(kwargs) == NRows(kwargs.distance_3D) * NCols(kwargs.distance_3D)

\* the first n calls of the two runs were made on equal instances with equal inputs
SameCalls(n) ==
    \A m \in 1..n : /\ golden[m].self = trace[m].self
                    /\ golden[m].kwargs = trace[m].kwargs

\* C7: two runs from the same seed that make the same get_loss calls, through
\* instances sharing the generator, return the same losses and leave the
\* generator in the same state; a call with shadowing on takes one sample per
\* link, before the replication, from where the call before it left the
\* generator, and a call with shadowing off takes none.
C7_Reproducible ==
    /\ \A n \in 1..Len(trace) :
          (n <= Len(golden) /\ SameCalls(n)) =>
              /\ trace[n].loss = golden[n].loss
              /\ trace[n].gen = golden[n].gen
    /\ \A n \in 1..Len(trace) :
          /\ trace[n].gen_before = IF n = 1 THEN 0 ELSE trace[n - 1].gen
          /\ trace[n].drawn = IF ShadowingOn(trace[n].kwargs) THEN Links(trace[n].kwargs) ELSE 0
          /\ trace[n].gen = (trace[n].gen_before + trace[n].drawn) % Len(NormalStream)
    /\ rand_gen = IF trace = <<>> THEN 0 ELSE trace[Len(trace)].gen

\* C7's case: the second run has repeated the first run's two calls, both with
\* shadowing on, the first through one instance and the second through another
C7_Witness ==
    /\ Len(golden) = 2 /\ Len(trace) = 2
    /\ SameCalls(2)
    /\ ShadowingOn(trace[1].kwargs) /\ ShadowingOn(trace[2].kwargs)
    /\ trace[1].self # trace[2].self
    /\ trace[1].kwargs # trace[2].kwargs
    /\ trace[2].loss = golden[2].loss
    /\ trace[2].gen # 0

\* the second run has made the first run's two shadowed calls in the other
\* order, through the same instance, and each returned another loss
C7_SwappedOrder ==
    /\ Len(golden) = 2 /\ Len(trace) = 2
    /\ ShadowingOn(trace[1].kwargs) /\ ShadowingOn(trace[2].kwargs)
    /\ trace[1].self = golden[2].self /\ trace[1].kwargs = golden[2].kwargs
    /\ trace[2].self = golden[1].self /\ trace[2].kwargs = golden[1].kwargs
    /\ trace[1].kwargs # trace[2].kwargs
    /\ trace[1].loss # golden[2].loss
    /\ trace[2].loss # golden[1].loss

\* the call passed shadowing = False and returned
Pure(c) ==
    /\ c.op = "get_loss" /\ c.error = "none"
    /\ "shadowing" \in c.kwargs.keys /\ ~c.kwargs.shadowing

\* C8: a get_loss call with shadowing = False leaves the generator, the
\* instance's constants and the caller's arrays as they were, and two such
\* calls on equal instances with equal inputs return equal losses whatever
\* was called in between.
C8_PureWithoutShadowing ==
    /\ \A n \in 1..Len(trace) :
          Pure(trace[n]) =>
              /\ trace[n].gen = trace[n].gen_before
              /\ trace[n].drawn = 0
              /\ trace[n].self_after = trace[n].self
              /\ trace[n].caller.distance_3D = trace[n].kwargs.distance_3D
              /\ trace[n].caller.frequency = trace[n].kwargs.frequency
              /\ trace[n].caller.indoor_stations = trace[n].kwargs.indoor_stations
    /\ \A n, m \in 1..Len(trace) :
          ( /\ Pure(trace[n]) /\ Pure(trace[m])
            /\ trace[n].self = trace[m].self
            /\ trace[n].kwargs = trace[m].kwargs )
              => trace[n].loss = trace[m].loss
    /\ Pure(call) =>
          /\ rand_gen = call.gen_before
          /\ prop = call.self

\* C8's case: two calls with shadowing off and equal inputs, a call with
\* shadowing on between them, the generator in different states at the two
C8_Witness ==
    /\ Len(trace) = 3
    /\ Pure(trace[1]) /\ Pure(trace[3])
    /\ ~Pure(trace[2]) /\ trace[2].drawn > 0
    /\ trace[1].self = trace[3].self /\ trace[1].kwargs = trace[3].kwargs
    /\ trace[1].gen_before # trace[3].gen_before
    /\ trace[1].loss = trace[3].loss

====
